---- MODULE Spec2Model ----
(***************************************************************************)
(* TeachReach teacher-data transformation: the field-resolution and        *)
(* enrichment pipeline (src/transformers/teacher_data.py), the inference   *)
(* gateway (src/utils/openai_client.py), the command-line run              *)
(* (src/transform.py) and the output standardizer                          *)
(* (src/utils/output_formatter.py, src/mappings/output_format.py).         *)
(***************************************************************************)
EXTENDS Integers, Sequences, FiniteSets, TLC

VARIABLES
    entry,          \* which entry point runs: "main", "direct", "standardize"
                    \* or "validate"
    pc,             \* position of the run
    mapping_file,   \* the mapping definition file on disk
    input_file,     \* the input file on disk (a batch, or "missing")
    api_key_arg,    \* the api_key argument given to the constructor
    env_key,        \* OPENAI_API_KEY of the environment
    gateway,        \* what the text-generation service answers in this run
    mapping,        \* transformer.mapping (ordered pairs, keys unique)
    api_key,        \* openai_client.api_key
    input_data,     \* the loaded input batch
    row_index,      \* number of input rows already processed by transform
    output_data,    \* the batch transform has accumulated / returned
    last_row,       \* trace of the last _transform_row call
    uuid_count,     \* number of uuid4 values drawn so far
    clock,          \* number of datetime.now() readings so far
    requests,       \* external requests dispatched, per processed row
    written,        \* the batches written to the output file, in order
    std_in,         \* the batch handed to standardize_output
    std_out,        \* what standardize_output returned or raised
    error,          \* the exception that ended the run ("" when none did)
    std_again,      \* what standardize_output returned for its own result
    val_in,         \* the argument handed to validate_output
    val_out         \* what validate_output returned

vars == <<entry, pc, mapping_file, input_file, api_key_arg, env_key, gateway,
          mapping, api_key, input_data, row_index, output_data, last_row,
          uuid_count, clock, requests, written, std_in, std_out, error,
          std_again, val_in, val_out>>

\* the variables of the second standardization and of the validation call
aux == <<std_again, val_in, val_out>>

-----------------------------------------------------------------------------
(* Bounds of the model.                                                    *)

MaxRows == 2        \* rows of a multi-row input batch
MaxListLen == 2     \* elements of a list value returned by the gateway

-----------------------------------------------------------------------------
(* Python values.  Every cell is a record with a kind k and a payload v   *)
(* (a sequence of strings), so that any two cells can be compared.         *)

Str(s) == [k |-> "str", v |-> <<s>>]
PyInt(s) == [k |-> "int", v |-> <<s>>]
PyNone == [k |-> "None", v |-> <<>>]
NaN == [k |-> "nan", v |-> <<>>]
PyList(q) == [k |-> "list", v |-> q]
EmptyDict == [k |-> "dict", v |-> <<>>]
PyFalse == [k |-> "bool", v |-> <<"False">>]
Uuid(n) == [k |-> "uuid", v |-> <<"uuid4-" \o ToString(n)>>]
Timestamp(n) == [k |-> "str", v |-> <<"2025-01-01T00:00:0" \o ToString(n)>>]

\* str(x)
PyStr(x) ==
    CASE x.k = "nan" -> "nan"
      [] x.k = "None" -> "None"
      [] x.k = "dict" -> "{}"
      [] x.k = "list" -> "[...]"
      [] OTHER -> x.v[1]

\* bool(x): the truth value Python gives x in a condition
Truthy(x) ==
    CASE x.k = "None" -> FALSE
      [] x.k = "nan" -> TRUE          \* float('nan') is a non-zero float
      [] x.k = "str" -> x.v[1] # ""
      [] x.k = "int" -> x.v[1] # "0"
      [] x.k = "list" -> Len(x.v) > 0
      [] x.k = "dict" -> FALSE
      [] x.k = "bool" -> x.v[1] # "False"
      [] OTHER -> TRUE

\* pd.isna(x) used as a condition: "true", "false", or "raise" when the
\* element-wise answer for a list of two or more elements has no truth value
IsNaCondition(x) ==
    CASE x.k \in {"None", "nan"} -> "true"
      [] x.k = "list" /\ Len(x.v) >= 2 -> "raise"
      [] OTHER -> "false"

\* dict with key k set to v
Put(f, key, val) == [x \in (DOMAIN f) \cup {key} |-> IF x = key THEN val ELSE f[x]]

EmptyRecord == [x \in {} |-> PyNone]

-----------------------------------------------------------------------------
(* Source specifications of the mapping table.  A key of the mapping is   *)
(* kept as its '+'-separated segments; each segment records the blanks    *)
(* around the field name so that split and strip have something to do.    *)

Seg(l, n, r) == [l |-> l, n |-> n, r |-> r]
Field(n) == <<Seg(0, n, 0)>>

Pad(n) == IF n = 0 THEN "" ELSE " "
SegText(s) == Pad(s.l) \o s.n \o Pad(s.r)

RECURSIVE KeyText(_)
\* the key as written in the table
KeyText(key) ==
    IF Len(key) = 1 THEN SegText(key[1])
    ELSE SegText(key[1]) \o "+" \o KeyText(Tail(key))

\* '+' in input_field
HasPlus(key) == Len(key) > 1

\* [part.strip() for part in input_field.split('+')]
SplitStrip(key) == [i \in 1..Len(key) |-> key[i].n]

\* input_field.lower()
Lower(s) == IF s \in {"AI", "Ai", "aI", "ai"} THEN "ai" ELSE s

-----------------------------------------------------------------------------
(* Field Resolver: the mapping loop of TeacherDataTransformer._transform_row *)

Range(q) == {q[i] : i \in 1..Len(q)}

RECURSIVE Join(_)
\* ' '.join(tokens)
Join(tokens) ==
    IF tokens = <<>> THEN ""
    ELSE IF Len(tokens) = 1 THEN tokens[1]
    ELSE tokens[1] \o " " \o Join(Tail(tokens))

\* row.get(part): None when the record has no such attribute
RowGet(row, part) == IF part \in DOMAIN row THEN row[part] ELSE PyNone

\* ' '.join([str(row.get(part, '')) for part in input_parts if row.get(part)])
combined_value(row, key) ==
    LET input_parts == SplitStrip(key)
        kept == SelectSeq(input_parts, LAMBDA part : Truthy(RowGet(row, part)))
    IN  Join([i \in 1..Len(kept) |-> PyStr(row[kept[i]])])

\* one iteration of "for input_field, output_field in self.mapping.items()"
apply_mapping(row, item, acc) ==
    LET key == item[1]
        output_field == item[2]
    IN  IF KeyText(key) \in DOMAIN row
        THEN [acc EXCEPT !.transformed = Put(@, output_field, row[KeyText(key)])]
        ELSE IF HasPlus(key)
        THEN LET combined == combined_value(row, key)
             IN  [acc EXCEPT !.transformed =
                     Put(@, output_field, IF combined # "" THEN Str(combined) ELSE PyNone)]
        ELSE IF Lower(KeyText(key)) = "ai"
        THEN [acc EXCEPT !.ai_fields = Append(@, output_field)]
        ELSE acc

RECURSIVE apply_mappings(_, _, _)
apply_mappings(row, items, acc) ==
    IF items = <<>> THEN acc
    ELSE apply_mappings(row, Tail(items), apply_mapping(row, items[1], acc))

-----------------------------------------------------------------------------
(* Inference Gateway: OpenAIClient                                         *)

NoKey == ""     \* None or the empty string: both fail "if not api_key"

\* OpenAIClient.__init__: the key the client stores, or "raise"
client_init(arg, env) ==
    IF arg # NoKey THEN [raised |-> FALSE, api_key |-> arg]
    ELSE IF env # NoKey THEN [raised |-> FALSE, api_key |-> env]
    ELSE [raised |-> TRUE, api_key |-> NoKey]

get_fallback_value(field_name) ==
    CASE field_name = "Years of experience (P)" -> PyInt("5")
      [] field_name = "Subject (Array) (c)" -> PyList(<<"General Education">>)
      [] field_name = "Preferred curriculumn (O)" -> Str("British")
      [] field_name = "Nationality (Z)" -> Str("International")
      [] OTHER -> Str("Unknown")

FallbackAll(field_names) ==
    [f \in Range(field_names) |-> get_fallback_value(f)]

\* _create_multi_field_prompt: the fields the prompt asks the service for
prompt_fields(field_names) == SelectSeq(field_names, LAMBDA f : f # "Source ID")

\* The service's answer to a prompt: it raises, answers text that is not
\* JSON, or answers a JSON object (the request sets response_format to
\* json_object, so an answer that parses is an object).  The object holds gateway.value under the
\* asked fields (but the first, when it omits one) and under the extra keys
\* it adds.
Outcomes == {"raise", "unparsable", "json"}

ResponseBody(gw, asked) ==
    LET omitted == IF gw.omit_first /\ asked # <<>> THEN {asked[1]} ELSE {}
    IN  [f \in (Range(asked) \ omitted) \cup gw.extra |-> gw.value]

\* A faulty variant of infer_multiple_fields that returns the parsed object
\* as it is, without "if field not in result_dict: result_dict[field] = ...".
infer_multiple_fields_unfilled(key, field_names, gw, outcome) ==
    IF key = NoKey
    THEN [called |-> FALSE, result |-> FallbackAll(field_names)]
    ELSE IF outcome \in {"raise", "unparsable"}
    THEN [called |-> TRUE, result |-> FallbackAll(field_names)]
    ELSE [called |-> TRUE, result |-> ResponseBody(gw, prompt_fields(field_names))]

\* OpenAIClient.infer_multiple_fields
infer_multiple_fields(key, field_names, gw, outcome) ==
    IF key = NoKey
    THEN [called |-> FALSE, result |-> FallbackAll(field_names)]
    ELSE IF outcome \in {"raise", "unparsable"}
    THEN [called |-> TRUE, result |-> FallbackAll(field_names)]
    ELSE LET result_dict == ResponseBody(gw, prompt_fields(field_names))
         IN  [called |-> TRUE,
              result |-> [f \in (DOMAIN result_dict) \cup Range(field_names) |->
                             IF f \in DOMAIN result_dict THEN result_dict[f]
                             ELSE get_fallback_value(f)]]

\* A faulty variant in which a request that raised or whose answer did not
\* parse is dispatched a second time before the fallback values are used.
requests_dispatched_with_retry(ai_fields, called, outcome) ==
    IF ai_fields # <<>> /\ called
    THEN IF outcome \in {"raise", "unparsable"} THEN 2 ELSE 1
    ELSE 0

\* The external requests one row dispatches: "if ai_fields:" guards the only
\* call of infer_multiple_fields, which calls client.chat.completions.create
\* once when the client has a key, whatever the outcome of that call.
requests_dispatched(ai_fields, called, outcome) ==
    IF ai_fields # <<>> /\ called THEN 1 ELSE 0

-----------------------------------------------------------------------------
(* Row Assembler: TeacherDataTransformer._transform_row                    *)

required_output_columns ==
    << "teacher_id", "name", "subject", "headline",
       "current_location_country", "current_location_city",
       "bio", "preferred_curriculum_experience",
       "years_of_teaching_experience", "linkedin_profile_url" >>

\* _get_default_value; fresh is the number of the uuid4 drawn if one is needed
get_default_value(column_name, fresh) ==
    CASE column_name = "teacher_id" -> Uuid(fresh)
      [] column_name = "name" -> Str("Unknown Teacher")
      [] column_name = "subject" -> Str("General Education")
      [] column_name = "headline" -> Str("Teacher")
      [] column_name = "current_location_country" -> Str("Unknown")
      [] column_name = "current_location_city" -> Str("Unknown")
      [] column_name = "bio" -> Str("No biography provided")
      [] column_name = "preferred_curriculum_experience" -> Str("Not specified")
      [] column_name = "years_of_teaching_experience" -> Str("0")
      [] column_name = "linkedin_profile_url" -> Str("Not provided")
      [] OTHER -> PyNone

\* "col not in transformed or pd.isna(transformed[col]) or transformed[col] == ''"
needs_default(transformed, col) ==
    IF col \notin DOMAIN transformed THEN "true"
    ELSE IF IsNaCondition(transformed[col]) # "false" THEN IsNaCondition(transformed[col])
    ELSE IF transformed[col] = Str("") THEN "true"
    ELSE "false"

RECURSIVE fill_defaults(_, _)
\* the loop over required_output_columns; st = [rec, uuids, raised]
fill_defaults(cols, st) ==
    IF cols = <<>> \/ st.raised THEN st
    ELSE LET col == cols[1]
             c == needs_default(st.rec, col)
         IN  fill_defaults(Tail(cols),
                CASE c = "raise" -> [st EXCEPT !.raised = TRUE]
                  [] c = "true" ->
                        [rec |-> Put(st.rec, col, get_default_value(col, st.uuids + 1)),
                         uuids |-> IF col = "teacher_id" THEN st.uuids + 1 ELSE st.uuids,
                         raised |-> FALSE]
                  [] OTHER -> st)

\* "for field, value in inferred_values.items(): transformed[field] = value"
merge_inferred(transformed, inferred) ==
    [f \in (DOMAIN transformed) \cup (DOMAIN inferred) |->
        IF f \in DOMAIN inferred THEN inferred[f] ELSE transformed[f]]

\* _transform_row(row) of a transformer with this mapping and client key, when
\* n uuids and t clock readings were drawn before and the service answers
\* with this outcome.  The intermediate records are kept for inspection.
transform_row(row, items, key, gw, outcome, n, t) ==
    LET start == Put(EmptyRecord, "teacher_id", Uuid(n + 1))
        resolved == apply_mappings(row, items, [transformed |-> start, ai_fields |-> <<>>])
        ai_fields == resolved.ai_fields
        inference == infer_multiple_fields(key, ai_fields, gw, outcome)
        merged == IF ai_fields # <<>>
                  THEN merge_inferred(resolved.transformed, inference.result)
                  ELSE resolved.transformed
        filled == fill_defaults(required_output_columns,
                                [rec |-> merged, uuids |-> n + 1, raised |-> FALSE])
    IN  [raised |-> filled.raised,
         outcome |-> outcome,
         rec |-> IF filled.raised THEN EmptyRecord
                 ELSE Put(filled.rec, "created_at", Timestamp(t + 1)),
         row |-> row,
         resolved |-> resolved.transformed,
         ai_fields |-> ai_fields,
         inferred |-> IF ai_fields # <<>> THEN inference.result ELSE EmptyRecord,
         merged |-> merged,
         requests |-> requests_dispatched(ai_fields, inference.called, outcome),
         uuids |-> filled.uuids,
         clock |-> IF filled.raised THEN t ELSE t + 1]

-----------------------------------------------------------------------------
(* Batches (pandas.DataFrame): a set of column names and a sequence of    *)
(* rows, each row a function on the columns; a missing cell is NaN.        *)

DataFrame(columns, rows) == [columns |-> columns, rows |-> rows]

Widen(row, columns) == [c \in columns |-> IF c \in DOMAIN row THEN row[c] ELSE NaN]

\* pd.concat([output_data, pd.DataFrame([transformed_row])], ignore_index=True)
concat_row(df, rec) ==
    LET columns == df.columns \cup DOMAIN rec
    IN  DataFrame(columns,
                  Append([i \in 1..Len(df.rows) |-> Widen(df.rows[i], columns)],
                         Widen(rec, columns)))

\* get_output_columns
get_output_columns(items) ==
    {items[i][2] : i \in 1..Len(items)} \cup Range(required_output_columns) \cup {"created_at"}

\* validate_input / validate_output (the argument is always a DataFrame here)
validate_input(df) == Len(df.rows) # 0

validate_output(df) ==
    /\ Len(df.rows) # 0
    /\ \A i \in 1..Len(required_output_columns) : required_output_columns[i] \in df.columns

-----------------------------------------------------------------------------
(* Mapping tables: src/config.py and load_mapping of src/utils/data_loader.py *)

\* mapping[key] = value on a dict kept as ordered pairs: a key already
\* present keeps its position and takes the new value
DictSet(items, key, val) ==
    IF \E i \in 1..Len(items) : KeyText(items[i][1]) = KeyText(key)
    THEN [i \in 1..Len(items) |->
             IF KeyText(items[i][1]) = KeyText(key) THEN <<items[i][1], val>> ELSE items[i]]
    ELSE Append(items, <<key, val>>)

RECURSIVE DictOf(_, _)
\* the dict a literal or a sequence of assignments builds
DictOf(pairs, items) ==
    IF pairs = <<>> THEN items
    ELSE DictOf(Tail(pairs), DictSet(items, pairs[1][1], pairs[1][2]))

\* a destination of the built-in table: a name and its parenthetical code
Coded(base, code) == [base |-> base, code |-> code]

DEFAULT_FIELD_MAPPINGS ==
    DictOf(<< <<Field("-"), Coded("ID", " (a)")>>,
              <<<<Seg(0, "First (FP)", 1), Seg(1, "Last (FV)", 0)>>, Coded("Name", " (b)")>>,
              <<Field("Headline (FS)"), Coded("Headline", " (d)")>>,
              <<Field("Country (B)"), Coded("country", " (R)")>>,
              <<Field("City (A)"), Coded("city", " (s)")>>,
              <<Field("Linkedin URL (FW)"), Coded("Linkedin URL", " (u)")>>,
              <<Field("organization (U)"), Coded("School", " (AA)")>>,
              <<Field("organization website"), Coded("school website", " (AB)")>>,
              <<Field("Email E"), Coded("Email", " (AC)")>>,
              <<Field("ID"), Coded("Source ID", " (AD)")>>,
              <<Field("AI"), Coded("Years of experience", " (P)")>>,
              <<Field("AI"), Coded("Subject (Array)", " (c)")>>,
              <<Field("AI"), Coded("Preferred curriculumn", " (O)")>>,
              <<Field("AI"), Coded("Nationality", " (Z)")>> >>, <<>>)

\* clean_column_name: drops the trailing parenthetical code and the blanks
\* before it
clean_column_name(name) == name.base

CLEAN_FIELD_MAPPINGS ==
    [i \in 1..Len(DEFAULT_FIELD_MAPPINGS) |->
        <<DEFAULT_FIELD_MAPPINGS[i][1], clean_column_name(DEFAULT_FIELD_MAPPINGS[i][2])>>]

\* A mapping file is a sequence of lines; a line is the sequence of its
\* tab-separated cells, a cell being <<>> when it holds only blanks and the
\* segments of its text otherwise; inferred tells whether the line starts
\* with "Inferred".
Line(cells) == [inferred |-> FALSE, cells |-> cells]
InferredLine(cells) == [inferred |-> TRUE, cells |-> cells]

RECURSIVE DropLeadingBlank(_)
DropLeadingBlank(cells) ==
    IF cells # <<>> /\ cells[1] = <<>> THEN DropLeadingBlank(Tail(cells)) ELSE cells

RECURSIVE DropTrailingBlank(_)
DropTrailingBlank(cells) ==
    IF cells # <<>> /\ cells[Len(cells)] = <<>>
    THEN DropTrailingBlank(SubSeq(cells, 1, Len(cells) - 1)) ELSE cells

\* line.strip().split('\t')
StripSplit(line) == DropTrailingBlank(DropLeadingBlank(line.cells))

\* one iteration of "for line in lines[1:]"
load_line(line, items) ==
    LET parts == StripSplit(line)
    IN  IF parts = <<>> \/ line.inferred THEN items
        ELSE IF Len(parts) >= 2 /\ parts[1] # <<>> /\ parts[2] # <<>>
        THEN DictSet(items, parts[1], KeyText(parts[2]))
        ELSE items

RECURSIVE load_lines(_, _)
load_lines(lines, items) ==
    IF lines = <<>> THEN items
    ELSE load_lines(Tail(lines), load_line(lines[1], items))

\* load_mapping of a file that exists and can be read
load_mapping(lines) == IF lines = <<>> THEN <<>> ELSE load_lines(Tail(lines), <<>>)

-----------------------------------------------------------------------------
(* Output Standardizer: src/mappings/output_format.py and                 *)
(* standardize_output of src/utils/output_formatter.py                     *)

\* A faulty variant of the header list that leaves "Embeddings" out.
DESIRED_OUTPUT_HEADERS_short ==
    << "teacher_id", "name", "subject", "headline", "bio",
       "profile_completion_percentage", "profile_visibility",
       "preferred_teaching_modes", "willing_to_relocate", "hourly_rate",
       "monthly_salary_expectation", "available_start_date", "cv_resume_url",
       "video_intro_url", "preferred_curriculum_experience",
       "years_of_teaching_experience", "work_authorization_status",
       "current_location_country", "current_location_city",
       "background_check_status", "linkedin_profile_url",
       "preferred_grade_level", "subjects_count", "created_at",
       "Nationality", "Current school", "School website", "Email", "Source ID" >>

DESIRED_OUTPUT_HEADERS ==
    << "teacher_id", "name", "subject", "headline", "bio",
       "profile_completion_percentage", "profile_visibility",
       "preferred_teaching_modes", "willing_to_relocate", "hourly_rate",
       "monthly_salary_expectation", "available_start_date", "cv_resume_url",
       "video_intro_url", "preferred_curriculum_experience",
       "years_of_teaching_experience", "work_authorization_status",
       "current_location_country", "current_location_city",
       "background_check_status", "linkedin_profile_url",
       "preferred_grade_level", "subjects_count", "created_at", "Embeddings",
       "Nationality", "Current school", "School website", "Email", "Source ID" >>

\* A faulty variant of the alias table with an entry that copies an input
\* column named hourly_rate.
FIELD_MAPPING_with_rate ==
    << <<"teacher_id", "teacher_id">>,
       <<"created_at", "created_at">>,
       <<"current_location_country", "current_location_country">>,
       <<"current_location_city", "current_location_city">>,
       <<"subject", "subject">>,
       <<"bio", "bio">>,
       <<"preferred_curriculum_experience", "preferred_curriculum_experience">>,
       <<"years_of_teaching_experience", "years_of_teaching_experience">>,
       <<"linkedin_profile_url", "linkedin_profile_url">>,
       <<"preferred_grade_level", "preferred_grade_level">>,
       <<"Nationality", "Nationality">>,
       <<"ID", "Source ID">>,
       <<"name", "name">>,
       <<"Name (b)", "name">>,
       <<"headline", "headline">>,
       <<"Headline (d)", "headline">>,
       <<"Linkedin URL (u)", "linkedin_profile_url">>,
       <<"Preferred age range (V)", "preferred_grade_level">>,
       <<"Email (AC)", "Email">>,
       <<"Source ID (AD)", "Source ID">>,
       <<"School (AA)", "Current school">>,
       <<"school website (AB)", "School website">>,
       <<"country (R)", "current_location_country">>,
       <<"city (s)", "current_location_city">>,
       <<"ID (a)", "teacher_id">>,
       <<"hourly_rate", "hourly_rate">> >>

FIELD_MAPPING ==
    << <<"teacher_id", "teacher_id">>,
       <<"created_at", "created_at">>,
       <<"current_location_country", "current_location_country">>,
       <<"current_location_city", "current_location_city">>,
       <<"subject", "subject">>,
       <<"bio", "bio">>,
       <<"preferred_curriculum_experience", "preferred_curriculum_experience">>,
       <<"years_of_teaching_experience", "years_of_teaching_experience">>,
       <<"linkedin_profile_url", "linkedin_profile_url">>,
       <<"preferred_grade_level", "preferred_grade_level">>,
       <<"Nationality", "Nationality">>,
       <<"ID", "Source ID">>,
       <<"name", "name">>,
       <<"Name (b)", "name">>,
       <<"headline", "headline">>,
       <<"Headline (d)", "headline">>,
       <<"Linkedin URL (u)", "linkedin_profile_url">>,
       <<"Preferred age range (V)", "preferred_grade_level">>,
       <<"Email (AC)", "Email">>,
       <<"Source ID (AD)", "Source ID">>,
       <<"School (AA)", "Current school">>,
       <<"school website (AB)", "School website">>,
       <<"country (R)", "current_location_country">>,
       <<"city (s)", "current_location_city">>,
       <<"ID (a)", "teacher_id">> >>

DEFAULT_VALUES ==
    << <<"teacher_id", Str("")>>,
       <<"name", Str("")>>,
       <<"subject", Str("")>>,
       <<"headline", Str("")>>,
       <<"bio", Str("")>>,
       <<"profile_completion_percentage", PyNone>>,
       <<"profile_visibility", PyNone>>,
       <<"preferred_teaching_modes", PyNone>>,
       <<"willing_to_relocate", PyNone>>,
       <<"hourly_rate", PyNone>>,
       <<"monthly_salary_expectation", PyNone>>,
       <<"available_start_date", PyNone>>,
       <<"cv_resume_url", PyNone>>,
       <<"video_intro_url", PyNone>>,
       <<"preferred_curriculum_experience", Str("")>>,
       <<"years_of_teaching_experience", Str("0")>>,
       <<"work_authorization_status", PyNone>>,
       <<"current_location_country", Str("")>>,
       <<"current_location_city", Str("")>>,
       <<"background_check_status", PyNone>>,
       <<"linkedin_profile_url", Str("")>>,
       <<"preferred_grade_level", Str("")>>,
       <<"subjects_count", PyInt("0")>>,
       <<"created_at", Str("")>>,
       <<"Embeddings", Str("")>>,
       <<"Nationality", Str("")>>,
       <<"Current school", Str("")>>,
       <<"School website", Str("")>>,
       <<"Email", Str("")>>,
       <<"Source ID", Str("")>> >>

CALCULATED_FIELDS ==
    << "preferred_teaching_modes", "available_start_date", "cv_resume_url",
       "video_intro_url", "preferred_curriculum_experience",
       "years_of_teaching_experience", "Embeddings", "Nationality" >>

\* A batch with ordered columns: the column list and the rows, each row a
\* function on the columns.
Table(columns, rows) == [columns |-> columns, rows |-> rows]

\* df[c]
Column(df, c) == [i \in 1..Len(df.rows) |-> df.rows[i][c]]

\* pd.isna of a cell of a column
IsNA(x) == x.k \in {"None", "nan"}
AllNA(series) == \A i \in 1..Len(series) : IsNA(series[i])
AnyNA(series) == \E i \in 1..Len(series) : IsNA(series[i])

\* The frame under construction: the columns it has, its number of rows and
\* the cells of each column.  pd.DataFrame(columns=headers) has no rows.
NewFrame(headers) ==
    [columns |-> Range(headers), n |-> 0, col |-> [c \in Range(headers) |-> <<>>]]

\* result[dest] = series: a frame without rows takes the rows of a series
\* that has some, its other columns becoming NaN
set_column(result, dest, series) ==
    IF result.n = 0 /\ Len(series) > 0
    THEN [columns |-> result.columns \cup {dest},
          n |-> Len(series),
          col |-> [c \in result.columns \cup {dest} |->
                      IF c = dest THEN series ELSE [i \in 1..Len(series) |-> NaN]]]
    ELSE [columns |-> result.columns \cup {dest},
          n |-> result.n,
          col |-> [c \in result.columns \cup {dest} |->
                      IF c = dest THEN series ELSE result.col[c]]]

\* result[field] = scalar
set_scalar(result, field, x) == set_column(result, field, [i \in 1..result.n |-> x])

\* series.fillna(x)
fillna(series, x) == [i \in 1..Len(series) |-> IF IsNA(series[i]) THEN x ELSE series[i]]

\* series.fillna(other): cells taken from another column of the same rows
fillna_from(series, other) ==
    [i \in 1..Len(series) |-> IF IsNA(series[i]) THEN other[i] ELSE series[i]]

RECURSIVE map_fields(_, _, _)
\* "for src_field, dest_field in FIELD_MAPPING.items()"
map_fields(df, pairs, result) ==
    IF pairs = <<>> THEN result
    ELSE LET src_field == pairs[1][1]
             dest_field == pairs[1][2]
         IN  map_fields(df, Tail(pairs),
                IF src_field \in Range(df.columns) /\ ~AllNA(Column(df, src_field))
                THEN set_column(result, dest_field, Column(df, src_field))
                ELSE result)

RECURSIVE apply_defaults(_, _)
\* "for field, default_value in DEFAULT_VALUES.items()"; st = [result, raised].
\* fillna(None) raises ValueError.
apply_defaults(pairs, st) ==
    IF pairs = <<>> \/ st.raised THEN st
    ELSE LET field == pairs[1][1]
             default_value == pairs[1][2]
             result == st.result
         IN  apply_defaults(Tail(pairs),
                IF field \notin result.columns \/ AllNA(result.col[field])
                THEN [st EXCEPT !.result = set_scalar(result, field, default_value)]
                ELSE IF AnyNA(result.col[field])
                THEN IF default_value = PyNone
                     THEN [st EXCEPT !.raised = TRUE]
                     ELSE [st EXCEPT !.result =
                              set_column(result, field, fillna(result.col[field], default_value))]
                ELSE st)

\* the value line 43 gives a calculated field
CalculatedDefault(field) == Str("")

\* the value lines 63-68 give a remaining field
RemainingDefault(field) ==
    IF field \in {"subjects_count", "profile_completion_percentage", "hourly_rate",
                  "monthly_salary_expectation"} THEN PyInt("0")
    ELSE IF field = "willing_to_relocate" THEN PyFalse
    ELSE Str("")

RECURSIVE ensure_fields(_, _, _)
\* "for field in ...: if field not in result.columns: result[field] = ...",
\* over the calculated fields or over the remaining fields
ensure_fields(fields, step, result) ==
    IF fields = <<>> THEN result
    ELSE ensure_fields(Tail(fields), step,
            IF fields[1] \notin result.columns
            THEN set_scalar(result, fields[1],
                            IF step = "calculated" THEN CalculatedDefault(fields[1])
                            ELSE RemainingDefault(fields[1]))
            ELSE result)

\* "Ensure teacher_id and created_at fields are always present"
ensure_teacher_id(df, st) ==
    IF st.raised THEN st
    ELSE IF "teacher_id" \notin st.result.columns \/ AllNA(st.result.col["teacher_id"])
    THEN IF "teacher_id" \in Range(df.columns)
         THEN [st EXCEPT !.result = set_column(@, "teacher_id", Column(df, "teacher_id"))]
         ELSE [st EXCEPT !.raised = TRUE]
    ELSE st

ensure_created_at(df, result, t) ==
    IF "created_at" \notin result.columns \/ AllNA(result.col["created_at"])
    THEN IF "created_at" \in Range(df.columns)
         THEN set_column(result, "created_at", Column(df, "created_at"))
         ELSE set_scalar(result, "created_at", Timestamp(t + 1))
    ELSE result

\* "Use preferred name ..."
name_fallback(df, result) ==
    IF "name" \in result.columns /\ AnyNA(result.col["name"])
    THEN IF "Name (b)" \in Range(df.columns)
         THEN set_column(result, "name", fillna_from(result.col["name"], Column(df, "Name (b)")))
         ELSE set_column(result, "name", fillna(result.col["name"], Str("Unknown Teacher")))
    ELSE result

\* A faulty variant of the reordering that selects headers[:-1] and so loses
\* the last column.
reorder_truncated(result, headers) ==
    Table(SubSeq(headers, 1, Len(headers) - 1),
          [i \in 1..result.n |->
              [c \in Range(SubSeq(headers, 1, Len(headers) - 1)) |-> result.col[c][i]]])

\* result[DESIRED_OUTPUT_HEADERS]
reorder(result, headers) ==
    Table(headers, [i \in 1..result.n |-> [c \in Range(headers) |-> result.col[c][i]]])

\* standardize_output(df), when t clock readings were drawn before
standardize_output(df, t) ==
    LET mapped == map_fields(df, FIELD_MAPPING, NewFrame(DESIRED_OUTPUT_HEADERS))
        defaulted == apply_defaults(DEFAULT_VALUES, [result |-> mapped, raised |-> FALSE])
        calculated == [defaulted EXCEPT !.result =
                          ensure_fields(CALCULATED_FIELDS, "calculated", @)]
        identified == ensure_teacher_id(df, calculated)
        stamped == ensure_created_at(df, identified.result, t)
        completed == ensure_fields(DESIRED_OUTPUT_HEADERS, "remaining", stamped)
        named == name_fallback(df, completed)
    IN  IF identified.raised
        THEN [raised |-> TRUE, frame |-> Table(<<>>, <<>>), clock |-> t]
        ELSE [raised |-> FALSE,
              frame |-> reorder(named, DESIRED_OUTPUT_HEADERS),
              clock |-> IF stamped # identified.result /\ "created_at" \notin Range(df.columns)
                        THEN t + 1 ELSE t]

-----------------------------------------------------------------------------
(* Inputs of a run.                                                        *)

NameKey == <<Seg(0, "first_name", 1), Seg(1, "last_name", 0)>>  \* "first_name + last_name"

\* mapping tables handed to the constructor
MappingTables ==
    { << <<NameKey, "name">>,
         <<Field("country"), "current_location_country">>,
         <<Field("ID"), "Source ID">> >>,
      << <<NameKey, "name">>, <<Field("AI"), "Nationality">> >>,
      << <<Field("AI"), "subject">> >>,
      << <<Field("AI"), "Source ID">>, <<Field("ai"), "Nationality (Z)">> >>,
      << <<Field("ID"), "teacher_id">> >>,
      << <<Field("ID"), "name">>, <<NameKey, "name">> >>,
      <<>>,
      CLEAN_FIELD_MAPPINGS }

\* mapping files on disk
MappingFiles ==
    { [status |-> "missing", lines |-> <<>>],
      [status |-> "unreadable", lines |-> <<>>],
      [status |-> "ok",
       lines |-> << Line(<<Field("Input"), Field("Output")>>),
                    Line(<<NameKey, Field("name")>>),
                    Line(<<Field("AI"), Field("Nationality")>>),
                    InferredLine(<<Field("Inferred fields")>>),
                    Line(<< <<>> >>),
                    Line(<<Field("AI"), Field("subject")>>),
                    Line(<<Field("ID")>>),
                    Line(<<Field("ID"), <<>>, Field("Source ID")>>) >>],
      [status |-> "ok",
       lines |-> << Line(<<Field("ID"), Field("teacher_id")>>),
                    InferredLine(<<Field("Inferred"), Field("bio")>>),
                    Line(<<Field("ID"), Field("Source ID")>>),
                    Line(<< <<>>, Field("Nationality"), Field("notes") >>) >>] }

\* cells of a single-row batch: a loaded file gives NaN for an empty cell, a
\* batch built in memory may also hold None or ''
CellValues(c) ==
    CASE c = "first_name" -> {NaN, Str("Jane")}
      [] c = "last_name" -> {NaN, PyNone, Str(""), Str("Doe")}
      [] OTHER -> {Str("7")}

AnyCell == UNION {CellValues(c) : c \in {"first_name", "last_name", "ID"}}

RowsOn(columns) == {r \in [columns -> AnyCell] : \A c \in columns : r[c] \in CellValues(c)}

RichBatches ==
    UNION { {DataFrame(cs \cup {"ID"}, <<r>>) : r \in RowsOn(cs \cup {"ID"})} :
            cs \in SUBSET {"first_name", "last_name"} }

\* rows of a batch of several records, as a file holds them
SimpleRows == {[c \in {"ID", "first_name"} |-> IF c = "ID" THEN Str(id) ELSE Str("Jane")] :
               id \in {"7", "8"}}

SimpleBatches ==
    UNION { {DataFrame({"ID", "first_name"}, rows) : rows \in [1..n -> SimpleRows]} :
            n \in 0..MaxRows }

\* the batches tried with the other ways of giving a credential
OneRowBatches == {b \in SimpleBatches : Len(b.rows) = 1}

\* what the service answers
GatewayValues ==
    {PyNone, Str(""), Str("British"), EmptyDict}
    \cup {PyList([i \in 1..n |-> "Mathematics"]) : n \in 1..MaxListLen}

Gateways ==
    [value : GatewayValues, omit_first : BOOLEAN, extra : {{}, {"teacher_id", "name"}}]

QuietGateway == [value |-> Str("British"), omit_first |-> FALSE, extra |-> {}]

UsesAI(items) == \E i \in 1..Len(items) : Lower(KeyText(items[i][1])) = "ai"

\* the service is consulted only by a mapping with an "AI" entry
GatewaysFor(items) == IF UsesAI(items) THEN Gateways ELSE {QuietGateway}

\* batches handed to standardize_output: a column list in some order and up
\* to MaxRows rows; a cell is NaN or a text that names its column
StdColumnLists ==
    { <<"teacher_id", "name", "Name (b)">>,
      <<"hourly_rate", "teacher_id">>,
      <<"extra", "willing_to_relocate">>,
      <<"created_at", "teacher_id", "ID">>,
      <<"Source ID", "ID (a)", "Email">>,
      <<"name", "profile_visibility">>,
      <<>> }

StdCells(c) == {NaN, Str("a " \o c)}

StdRowsOn(columns) ==
    {r \in [Range(columns) -> UNION {StdCells(c) : c \in Range(columns)}] :
        \A c \in Range(columns) : r[c] \in StdCells(c)}

StdBatches ==
    UNION { UNION { {Table(columns, rows) : rows \in [1..n -> StdRowsOn(columns)]} :
                    n \in 0..MaxRows } :
            columns \in StdColumnLists }

NoFile == [status |-> "missing", lines |-> <<>>]
NoInput == [exists |-> FALSE, frame |-> DataFrame({}, <<>>)]
NoFrame == DataFrame({}, <<>>)
NoRow == [raised |-> FALSE, outcome |-> "none", rec |-> EmptyRecord, row |-> EmptyRecord,
          resolved |-> EmptyRecord, ai_fields |-> <<>>, inferred |-> EmptyRecord,
          merged |-> EmptyRecord, requests |-> 0, uuids |-> 0, clock |-> 0]
NoTable == Table(<<>>, <<>>)
NoArgument == [is_frame |-> FALSE, frame |-> NoFrame]

RECURSIVE ColumnList(_)
\* list(df.columns) of a batch transform returned; standardize_output looks
\* columns up by name, so the order taken here does not matter to it
ColumnList(columns) ==
    IF columns = {} THEN <<>>
    ELSE LET c == CHOOSE c \in columns : TRUE
         IN  <<c>> \o ColumnList(columns \ {c})

\* the batch transform returned, as standardize_output receives it
AsTable(df) == Table(ColumnList(df.columns), df.rows)

\* validate_output(transformed_data) for any argument
validate_output_arg(arg) == arg.is_frame /\ validate_output(arg.frame)

\* arguments handed to validate_output: something that is not a DataFrame,
\* and frames of up to one row over some sets of columns
ValidateColumnSets ==
    { {},
      {"teacher_id", "name", "subject", "headline",
       "current_location_country", "current_location_city"},
      {"teacher_id", "name", "headline",
       "current_location_country", "current_location_city"},
      Range(required_output_columns),
      Range(required_output_columns) \ {"bio"},
      Range(required_output_columns) \cup {"created_at", "Source ID"} }

ValidateArguments ==
    {[is_frame |-> FALSE, frame |-> NoFrame]}
    \cup {[is_frame |-> TRUE, frame |-> DataFrame(cs, <<>>)] : cs \in ValidateColumnSets}
    \cup {[is_frame |-> TRUE, frame |-> DataFrame(cs, <<[c \in cs |-> Str("x")]>>)] :
            cs \in ValidateColumnSets}
NoResult == [raised |-> FALSE, frame |-> NoTable, clock |-> 0]

\* A faulty variant in which the handler around load_mapping leaves an empty
\* mapping instead of the built-in table.
main_mapping_without_fallback(file) ==
    IF file.status = "ok" THEN load_mapping(file.lines)
    ELSE IF file.status = "missing" THEN CLEAN_FIELD_MAPPINGS
    ELSE <<>>

\* the mapping main() hands to the transformer
main_mapping(file) ==
    IF file.status = "ok" THEN load_mapping(file.lines) ELSE CLEAN_FIELD_MAPPINGS

Fresh ==
    /\ api_key = NoKey
    /\ row_index = 0
    /\ output_data = NoFrame
    /\ last_row = NoRow
    /\ uuid_count = 0
    /\ clock = 0
    /\ requests = <<>>
    /\ written = <<>>
    /\ std_out = NoResult
    /\ error = ""
    /\ std_again = NoResult
    /\ val_out = "none"

\* a transformer built and used directly, as a library
InitDirect ==
    /\ entry = "direct"
    /\ pc = "construct"
    /\ mapping_file = NoFile
    /\ input_file = NoInput
    /\ api_key_arg \in {NoKey, "sk-arg"}
    /\ env_key \in {NoKey, "sk-env"}
    /\ mapping \in MappingTables
    /\ gateway \in GatewaysFor(mapping)
    /\ input_data \in IF api_key_arg = "sk-arg" /\ env_key = NoKey
                       THEN RichBatches \cup SimpleBatches
                       ELSE OneRowBatches
    /\ std_in = NoTable
    /\ val_in = NoArgument
    /\ Fresh

\* a run of main()
InitMain ==
    /\ entry = "main"
    /\ pc = "load_mapping"
    /\ mapping_file \in MappingFiles
    /\ input_file \in {NoInput} \cup {[exists |-> TRUE, frame |-> b] : b \in SimpleBatches}
    /\ api_key_arg = NoKey
    /\ env_key \in {NoKey, "sk-env"}
    /\ mapping = <<>>
    /\ gateway \in IF env_key = NoKey \/ ~input_file.exists THEN {QuietGateway}
                   ELSE GatewaysFor(main_mapping(mapping_file))
    /\ input_data = NoFrame
    /\ std_in = NoTable
    /\ val_in = NoArgument
    /\ Fresh

\* a call of standardize_output
InitStandardize ==
    /\ entry = "standardize"
    /\ pc = "standardize"
    /\ mapping_file = NoFile
    /\ input_file = NoInput
    /\ api_key_arg = NoKey
    /\ env_key = NoKey
    /\ mapping = <<>>
    /\ gateway = QuietGateway
    /\ input_data = NoFrame
    /\ std_in \in StdBatches
    /\ val_in = NoArgument
    /\ Fresh

\* a call of validate_output on a transformer
InitValidate ==
    /\ entry = "validate"
    /\ pc = "validate"
    /\ mapping_file = NoFile
    /\ input_file = NoInput
    /\ api_key_arg = NoKey
    /\ env_key = NoKey
    /\ mapping = <<>>
    /\ gateway = QuietGateway
    /\ input_data = NoFrame
    /\ std_in = NoTable
    /\ val_in \in ValidateArguments
    /\ Fresh

-----------------------------------------------------------------------------
(* The run: main() of src/transform.py, and the transformer used directly. *)

\* A faulty variant in which main()'s handler around transform() does not
\* return, so the run goes on to the save step.
Failed_without_return == IF entry = "main" THEN "save" ELSE "raised"

\* where an exception raised inside transform() ends: main() catches it,
\* reports it and returns without saving; a direct caller receives it
Failed == IF entry = "main" THEN "aborted" ELSE "raised"

\* main(): "Load the mapping"; a missing file and a failing load_mapping both
\* leave the built-in table
LoadMapping ==
    /\ pc = "load_mapping"
    /\ mapping' = main_mapping(mapping_file)
    /\ pc' = "load_input"
    /\ UNCHANGED <<entry, mapping_file, input_file, api_key_arg, env_key, gateway,
                   api_key, input_data, row_index, output_data, last_row,
                   uuid_count, clock, requests, written, std_in, std_out, error>>
    /\ UNCHANGED aux

\* main(): "Load the input data"; load_csv raises when the file is missing
LoadInput ==
    /\ pc = "load_input"
    /\ IF input_file.exists
       THEN input_data' = input_file.frame /\ pc' = "credential" /\ error' = error
       ELSE input_data' = input_data /\ pc' = "aborted" /\ error' = "FileNotFoundError"
    /\ UNCHANGED <<entry, mapping_file, input_file, api_key_arg, env_key, gateway,
                   mapping, api_key, row_index, output_data, last_row,
                   uuid_count, clock, requests, written, std_in, std_out>>
    /\ UNCHANGED aux

\* main(): "Load API key from environment"
CheckCredential ==
    /\ pc = "credential"
    /\ IF env_key = NoKey
       THEN api_key_arg' = api_key_arg /\ pc' = "aborted" /\ error' = "No OpenAI API key found"
       ELSE api_key_arg' = env_key /\ pc' = "construct" /\ error' = error
    /\ UNCHANGED <<entry, mapping_file, input_file, env_key, gateway,
                   mapping, api_key, input_data, row_index, output_data, last_row,
                   uuid_count, clock, requests, written, std_in, std_out>>
    /\ UNCHANGED aux

\* TeacherDataTransformer.__init__, which builds the OpenAIClient
Construct ==
    /\ pc = "construct"
    /\ LET client == client_init(api_key_arg, env_key)
       IN  IF client.raised
           THEN api_key' = api_key /\ pc' = "raised" /\ error' = "No OpenAI API key provided"
           ELSE api_key' = client.api_key /\ pc' = "transform" /\ error' = error
    /\ UNCHANGED <<entry, mapping_file, input_file, api_key_arg, env_key, gateway,
                   mapping, input_data, row_index, output_data, last_row,
                   uuid_count, clock, requests, written, std_in, std_out>>
    /\ UNCHANGED aux

\* transform(): input validation and the empty output frame
TransformBegin ==
    /\ pc = "transform"
    /\ IF validate_input(input_data)
       THEN /\ output_data' = DataFrame(get_output_columns(mapping), <<>>)
            /\ pc' = "rows"
            /\ error' = error
       ELSE /\ output_data' = output_data
            /\ pc' = Failed
            /\ error' = "Invalid input data"
    /\ UNCHANGED <<entry, mapping_file, input_file, api_key_arg, env_key, gateway,
                   mapping, api_key, input_data, row_index, last_row,
                   uuid_count, clock, requests, written, std_in, std_out>>
    /\ UNCHANGED aux

\* transform(): one iteration of "for _, row in data.iterrows()"
TransformRow ==
    /\ pc = "rows"
    /\ row_index < Len(input_data.rows)
    /\ \E outcome \in Outcomes :
          LET r == transform_row(input_data.rows[row_index + 1], mapping, api_key,
                                 gateway, outcome, uuid_count, clock)
          IN  /\ last_row' = r
              /\ uuid_count' = r.uuids
              /\ clock' = r.clock
              /\ requests' = Append(requests, r.requests)
              /\ IF r.raised
                 THEN /\ pc' = Failed
                      /\ error' = "The truth value of an array is ambiguous"
                      /\ UNCHANGED <<output_data, row_index>>
                 ELSE /\ pc' = "rows"
                      /\ error' = error
                      /\ output_data' = concat_row(output_data, r.rec)
                      /\ row_index' = row_index + 1
    /\ UNCHANGED <<entry, mapping_file, input_file, api_key_arg, env_key, gateway,
                   mapping, api_key, input_data, written, std_in, std_out>>
    /\ UNCHANGED aux

\* transform(): output validation and return
TransformEnd ==
    /\ pc = "rows"
    /\ row_index = Len(input_data.rows)
    /\ IF validate_output(output_data)
       THEN pc' = (IF entry = "main" THEN "save" ELSE "returned") /\ error' = error
       ELSE pc' = Failed /\ error' = "Invalid output data"
    /\ UNCHANGED <<entry, mapping_file, input_file, api_key_arg, env_key, gateway,
                   mapping, api_key, input_data, row_index, output_data, last_row,
                   uuid_count, clock, requests, written, std_in, std_out>>
    /\ UNCHANGED aux

\* main(): "Save the transformed data"; the write can fail
Save ==
    /\ pc = "save"
    /\ \E ok \in BOOLEAN :
          IF ok THEN written' = Append(written, output_data) /\ pc' = "done" /\ error' = error
          ELSE written' = written /\ pc' = "aborted" /\ error' = "Error saving transformed data"
    /\ UNCHANGED <<entry, mapping_file, input_file, api_key_arg, env_key, gateway,
                   mapping, api_key, input_data, row_index, output_data, last_row,
                   uuid_count, clock, requests, std_in, std_out>>
    /\ UNCHANGED aux

\* standardize_output(std_in)
Standardize ==
    /\ pc = "standardize"
    /\ LET r == standardize_output(std_in, clock)
       IN  /\ std_out' = r
           /\ clock' = r.clock
           /\ pc' = IF r.raised THEN "std_raised" ELSE "std_returned"
           /\ error' = IF r.raised THEN "ValueError" ELSE error
    /\ UNCHANGED <<entry, mapping_file, input_file, api_key_arg, env_key, gateway,
                   mapping, api_key, input_data, row_index, output_data, last_row,
                   uuid_count, requests, written, std_in>>
    /\ UNCHANGED aux

\* standardize_output applied to the batch it returned
StandardizeAgain ==
    /\ pc = "std_returned"
    /\ LET r == standardize_output(std_out.frame, clock)
       IN  /\ std_again' = r
           /\ clock' = r.clock
           /\ pc' = IF r.raised THEN "std_raised" ELSE "std_twice"
           /\ error' = IF r.raised THEN "ValueError" ELSE error
    /\ UNCHANGED <<entry, mapping_file, input_file, api_key_arg, env_key, gateway,
                   mapping, api_key, input_data, row_index, output_data, last_row,
                   uuid_count, requests, written, std_in, std_out, val_in, val_out>>

\* standardize_output applied to the batch transform() returned to its caller
StandardizeReturned ==
    /\ pc = "returned"
    /\ LET r == standardize_output(AsTable(output_data), clock)
       IN  /\ std_in' = AsTable(output_data)
           /\ std_out' = r
           /\ clock' = r.clock
           /\ pc' = IF r.raised THEN "piped_raised" ELSE "piped"
           /\ error' = IF r.raised THEN "ValueError" ELSE error
    /\ UNCHANGED <<entry, mapping_file, input_file, api_key_arg, env_key, gateway,
                   mapping, api_key, input_data, row_index, output_data, last_row,
                   uuid_count, requests, written>>
    /\ UNCHANGED aux

\* transformer.validate_output(val_in)
ValidateOutput ==
    /\ pc = "validate"
    /\ val_out' = IF validate_output_arg(val_in) THEN "True" ELSE "False"
    /\ pc' = "validated"
    /\ UNCHANGED <<entry, mapping_file, input_file, api_key_arg, env_key, gateway,
                   mapping, api_key, input_data, row_index, output_data, last_row,
                   uuid_count, clock, requests, written, std_in, std_out, error,
                   std_again, val_in>>

Init == InitDirect \/ InitMain \/ InitStandardize \/ InitValidate

Next ==
    \/ LoadMapping
    \/ LoadInput
    \/ CheckCredential
    \/ Construct
    \/ TransformBegin
    \/ TransformRow
    \/ TransformEnd
    \/ Save
    \/ Standardize
    \/ StandardizeAgain
    \/ StandardizeReturned
    \/ ValidateOutput

Spec == Init /\ [][Next]_vars

-----------------------------------------------------------------------------
(* Properties.                                                             *)

\* transform() returned a batch (main() then tries to save it)
TransformReturned ==
    \/ pc \in {"returned", "save", "done"}
    \/ pc = "aborted" /\ error = "Error saving transformed data"

\* transform() raised
TransformRaised ==
    error \in {"Invalid input data", "The truth value of an array is ambiguous",
               "Invalid output data"}

\* _transform_row was called and returned a record
RowReturned == last_row # NoRow /\ ~last_row.raised

\* a value that is null or empty: None, NaN, '' or an empty container
IsEmptyValue(x) ==
    \/ x.k \in {"None", "nan"}
    \/ x.k = "str" /\ x.v = <<"">>
    \/ x.k \in {"list", "dict"} /\ x.v = <<>>

\* whenever transform() does return, the batch has one record per input row
ReturnedBatchKeepsCount ==
    TransformReturned => Len(output_data.rows) = Len(input_data.rows)

\* C1: for every non-empty input batch and any mapping, transform() returns a
\* batch with exactly as many records as the input.
C1_TransformReturnsOneRecordPerRow ==
    (Len(input_data.rows) > 0 /\ (TransformReturned \/ TransformRaised))
        => (TransformReturned /\ Len(output_data.rows) = Len(input_data.rows))

\* a teacher_id in the generated form (a uuid4 drawn by the transformer)
IsGeneratedId(x) == x.k = "uuid"

\* C2: every record transform() returns has a teacher_id in the generated
\* identifier form, and no two records of one returned batch share it.
C2_TeacherIdsGeneratedAndUnique ==
    TransformReturned =>
        /\ \A i \in 1..Len(output_data.rows) :
              IsGeneratedId(output_data.rows[i]["teacher_id"])
        /\ \A i, j \in 1..Len(output_data.rows) :
              i # j => output_data.rows[i]["teacher_id"] # output_data.rows[j]["teacher_id"]

\* C3: every record _transform_row returns holds a value that is neither
\* null nor empty in each of the ten required columns, and a required column
\* that mapping and inference left missing, null or empty holds its fixed
\* default.
C3_RequiredColumnsPopulated ==
    RowReturned =>
        \A i \in 1..Len(required_output_columns) :
            LET col == required_output_columns[i]
            IN  /\ col \in DOMAIN last_row.rec
                /\ ~IsEmptyValue(last_row.rec[col])
                /\ (col # "teacher_id"
                    /\ (col \notin DOMAIN last_row.merged \/ IsEmptyValue(last_row.merged[col])))
                      => last_row.rec[col] = get_default_value(col, 0)

\* the parts of a combination that the record has with a value that is
\* neither null nor empty, joined by one space
PresentParts(row, key) ==
    SelectSeq(SplitStrip(key), LAMBDA part : part \in DOMAIN row /\ ~IsEmptyValue(row[part]))

JoinedPresentParts(row, key) ==
    Join([i \in 1..Len(PresentParts(row, key)) |-> PyStr(row[PresentParts(row, key)[i]])])

\* C4: a '+'-combination resolves to the values of its parts that are present
\* and non-empty in the record, in order, joined by exactly one space.
C4_CombinationJoinsPresentParts ==
    last_row # NoRow =>
        \A i \in 1..Len(mapping) :
            LET key == mapping[i][1]
                output_field == mapping[i][2]
                expected == JoinedPresentParts(last_row.row, key)
            IN  (/\ HasPlus(key)
                 /\ KeyText(key) \notin DOMAIN last_row.row
                 /\ expected # ""
                 /\ \A j \in (i + 1)..Len(mapping) : mapping[j][2] # output_field)
                    => last_row.resolved[output_field] = Str(expected)

\* C5: with no credential configured, a run of main() over a readable,
\* non-empty input does not stop before the output is written (only the
\* write itself may fail).
C5_RunWithoutCredentialCompletes ==
    (/\ entry = "main"
     /\ env_key = NoKey
     /\ input_file.exists
     /\ validate_input(input_file.frame)
     /\ pc = "aborted")
        => error = "Error saving transformed data"

\* C6: constructing the client with no credential succeeds and leaves api_key
\* None, and on such a client every inference makes no external call and
\* returns the fallback-table value of each requested field.
C6_ClientWithoutCredential ==
    (entry = "direct" /\ api_key_arg = NoKey /\ env_key = NoKey /\ pc # "construct")
        => /\ error # "No OpenAI API key provided"
           /\ api_key = NoKey
           /\ (last_row # NoRow /\ last_row.ai_fields # <<>>)
                 => /\ last_row.requests = 0
                    /\ last_row.inferred = FallbackAll(last_row.ai_fields)

\* C7: infer_multiple_fields returns a mapping that holds every requested
\* field: the fallback table's values when the call raises or the answer is
\* not JSON (and on a client without a key), and otherwise the answer's value
\* for each field it holds and the fallback value for each field it omits.
C7_InferenceCoversRequestedFields ==
    (last_row # NoRow /\ last_row.ai_fields # <<>>) =>
        LET fields == last_row.ai_fields
            body == ResponseBody(gateway, prompt_fields(fields))
        IN  /\ Range(fields) \subseteq DOMAIN last_row.inferred
            /\ last_row.outcome \in {"raise", "unparsable"}
                  => last_row.inferred = FallbackAll(fields)
            /\ last_row.outcome = "json"
                  => \A f \in Range(fields) :
                        last_row.inferred[f] =
                            IF f \in DOMAIN body THEN body[f] ELSE get_fallback_value(f)
            /\ \A o \in Outcomes :
                  infer_multiple_fields(NoKey, fields, gateway, o) =
                      [called |-> FALSE, result |-> FallbackAll(fields)]

\* the answer omitted a requested field, which holds its fallback value
\* beside a field that keeps the answer's value
C7_Witness ==
    /\ last_row # NoRow
    /\ last_row.outcome = "json"
    /\ gateway.omit_first
    /\ gateway.value = Str("British")
    /\ last_row.ai_fields = <<"Source ID", "Nationality (Z)">>
    /\ last_row.inferred = [f \in {"Source ID", "Nationality (Z)"} |->
                               IF f = "Source ID" THEN Str("Unknown") ELSE Str("International")]

\* no name occurs twice in the list
Distinct(q) == \A i, j \in 1..Len(q) : i # j => q[i] # q[j]

\* C8: the column list of the batch standardize_output returns is exactly
\* DESIRED_OUTPUT_HEADERS in its declared order, and each record has exactly
\* those columns.
C8_StandardizedColumns ==
    pc = "std_returned" =>
        /\ std_out.frame.columns = DESIRED_OUTPUT_HEADERS
        /\ Distinct(std_out.frame.columns)
        /\ \A i \in 1..Len(std_out.frame.rows) :
              DOMAIN std_out.frame.rows[i] = Range(DESIRED_OUTPUT_HEADERS)

\* a batch whose columns are few, in another order, and one of them (ID) not
\* a canonical column, was standardized
C8_Witness ==
    /\ pc = "std_returned"
    /\ std_in.columns = <<"created_at", "teacher_id", "ID">>
    /\ Len(std_in.rows) > 0
    /\ Len(std_out.frame.rows) = Len(std_in.rows)

\* C9 as stated: the canonical schema, which is the column list of every
\* standardized batch, is exactly 29 column names, pairwise distinct,
\* beginning with teacher_id and ending with Source ID.
C9_SchemaHas29Columns ==
    pc = "std_returned" =>
        LET schema == std_out.frame.columns
        IN  /\ schema = DESIRED_OUTPUT_HEADERS
            /\ Len(schema) = 29
            /\ Distinct(schema)
            /\ schema[1] = "teacher_id"
            /\ schema[Len(schema)] = "Source ID"

\* C9, amended: the canonical schema, which is the column list of every
\* standardized batch, is exactly 30 column names, pairwise distinct,
\* beginning with teacher_id and ending with Source ID.
C9_SchemaHas30Columns ==
    pc = "std_returned" =>
        LET schema == std_out.frame.columns
        IN  /\ schema = DESIRED_OUTPUT_HEADERS
            /\ Len(schema) = 30
            /\ Distinct(schema)
            /\ schema[1] = "teacher_id"
            /\ schema[Len(schema)] = "Source ID"

\* a standardized batch with records carries the 30 columns
C9_Witness ==
    /\ pc = "std_returned"
    /\ Len(std_out.frame.rows) > 0
    /\ Len(std_out.frame.columns) = 30
    /\ std_out.frame.columns[30] = "Source ID"

AlwaysEmptyColumns ==
    {"profile_completion_percentage", "profile_visibility", "preferred_teaching_modes",
     "willing_to_relocate", "hourly_rate", "monthly_salary_expectation",
     "available_start_date", "cv_resume_url", "video_intro_url",
     "work_authorization_status", "background_check_status"}

\* C10: in every batch standardize_output returns, each of the eleven
\* always-empty columns is null or empty in every record.
C10_AlwaysEmptyColumnsStayEmpty ==
    pc = "std_returned" =>
        \A i \in 1..Len(std_out.frame.rows) :
            \A c \in AlwaysEmptyColumns : IsEmptyValue(std_out.frame.rows[i][c])

\* the input carried a value in every cell of a column named hourly_rate and
\* the returned batch has records
C10_Witness ==
    /\ pc = "std_returned"
    /\ Len(std_out.frame.rows) > 0
    /\ "hourly_rate" \in Range(std_in.columns)
    /\ \A i \in 1..Len(std_in.rows) : ~IsEmptyValue(std_in.rows[i]["hourly_rate"])

\* C11: standardize_output is idempotent: standardizing the batch it returned
\* gives the same batch again, in column order and in every cell.
C11_StandardizeIdempotent ==
    pc = "std_twice" => std_again.frame = std_out.frame

\* the columns that must hold a value after standardization
StandardRequiredColumns ==
    {"name", "subject", "headline", "current_location_country",
     "current_location_city", "linkedin_profile_url", "preferred_grade_level",
     "subjects_count", "created_at", "Nationality", "Source ID"}

\* C12: in every batch transform() returned and standardize_output then
\* standardized, every record holds a value that is neither null nor empty in
\* each of the eleven columns required after standardization.
C12_StandardizedRequiredColumnsPopulated ==
    pc = "piped" =>
        \A i \in 1..Len(std_out.frame.rows) :
            \A c \in StandardRequiredColumns : ~IsEmptyValue(std_out.frame.rows[i][c])

\* C13: whenever a run of main() completes, the batch it wrote went through
\* standardize_output between row assembly and the write, so the written
\* columns are exactly the canonical header list.
C13_WrittenBatchIsStandardized ==
    (entry = "main" /\ pc = "done") =>
        /\ std_out # NoResult
        /\ \A i \in 1..Len(written) :
              written[i].columns = Range(DESIRED_OUTPUT_HEADERS)

\* C14: main() writes the output at most once, and only the whole batch after
\* the input was loaded and every row transformed; a run that stops on a
\* failure has written nothing.
C14_WriteOnceAndOnlyWhenComplete ==
    /\ Len(written) <= 1
    /\ written # <<>> =>
          /\ entry = "main"
          /\ pc = "done"
          /\ input_file.exists
          /\ input_data = input_file.frame
          /\ row_index = Len(input_data.rows)
          /\ written[1] = output_data
          /\ Len(written[1].rows) = Len(input_data.rows)
    /\ (entry = "main" /\ pc = "aborted") => written = <<>>

\* a run stopped by a failing row after an earlier row had been transformed,
\* and wrote nothing
C14_Witness ==
    /\ entry = "main"
    /\ pc = "aborted"
    /\ error = "The truth value of an array is ambiguous"
    /\ row_index >= 1
    /\ Len(output_data.rows) >= 1
    /\ written = <<>>

\* line i of the file is one that registers an entry: not the first line, not
\* blank, not beginning with "Inferred", with a source (its first
\* tab-separated field) and a destination (its second) that are non-empty
\* after trimming
Registers(lines, i) ==
    /\ i >= 2
    /\ ~lines[i].inferred
    /\ \E j \in 1..Len(lines[i].cells) : lines[i].cells[j] # <<>>
    /\ Len(lines[i].cells) >= 2
    /\ lines[i].cells[1] # <<>>
    /\ lines[i].cells[2] # <<>>

SourceOf(lines, i) == KeyText(lines[i].cells[1])
DestinationOf(lines, i) == KeyText(lines[i].cells[2])

\* C15: load_mapping ignores the first line, skips blank lines and lines that
\* begin with "Inferred", and registers source -> destination for exactly the
\* remaining lines whose source and destination are non-empty (a source that
\* occurs again takes the destination of its last line); no other line adds
\* an entry.
C15_LoadMappingRegistersExactly ==
    (entry = "main" /\ pc # "load_mapping" /\ mapping_file.status = "ok") =>
        LET lines == mapping_file.lines
        IN  /\ \A k \in 1..Len(mapping) :
                  \E i \in 1..Len(lines) :
                      /\ Registers(lines, i)
                      /\ SourceOf(lines, i) = KeyText(mapping[k][1])
                      /\ DestinationOf(lines, i) = mapping[k][2]
            /\ \A i \in 1..Len(lines) :
                  Registers(lines, i) =>
                      \E k \in 1..Len(mapping) :
                          /\ KeyText(mapping[k][1]) = SourceOf(lines, i)
                          /\ (\A j \in (i + 1)..Len(lines) :
                                 ~(Registers(lines, j) /\ SourceOf(lines, j) = SourceOf(lines, i)))
                                => mapping[k][2] = DestinationOf(lines, i)

\* on a file none of whose lines starts with an empty field, load_mapping
\* registers exactly the lines C15 names
LoadMappingWithoutLeadingTab ==
    (/\ entry = "main" /\ pc # "load_mapping" /\ mapping_file.status = "ok"
     /\ \A i \in 1..Len(mapping_file.lines) :
           Len(mapping_file.lines[i].cells) >= 2 => mapping_file.lines[i].cells[1] # <<>>)
        => C15_LoadMappingRegistersExactly

\* the six columns C16 names
SixRequiredColumns ==
    {"teacher_id", "name", "subject", "headline",
     "current_location_country", "current_location_city"}

\* C16: validate_output returns True for every non-empty DataFrame that has
\* the columns teacher_id, name, subject, headline, current_location_country
\* and current_location_city, and False for an argument that is not a
\* DataFrame, for an empty DataFrame and for one lacking one of those columns.
C16_ValidateOutputOnSixColumns ==
    pc = "validated" =>
        val_out = IF /\ val_in.is_frame
                     /\ Len(val_in.frame.rows) > 0
                     /\ SixRequiredColumns \subseteq val_in.frame.columns
                  THEN "True" ELSE "False"

\* what validate_output does return True for: a non-empty DataFrame with all
\* ten required columns
ValidateOutputOnTenColumns ==
    pc = "validated" =>
        val_out = IF /\ val_in.is_frame
                     /\ Len(val_in.frame.rows) > 0
                     /\ Range(required_output_columns) \subseteq val_in.frame.columns
                  THEN "True" ELSE "False"

\* header.lower() of a column name of the built-in mapping's output (the
\* names not listed have no upper-case letter)
LowerName(c) ==
    CASE c = "ID" -> "id"
      [] c = "Name" -> "name"
      [] c = "Headline" -> "headline"
      [] c = "Linkedin URL" -> "linkedin url"
      [] c = "School" -> "school"
      [] c = "Email" -> "email"
      [] c = "Source ID" -> "source id"
      [] c = "Nationality" -> "nationality"
      [] OTHER -> c

\* C17: with the built-in mapping, no two column names of the batch
\* transform() returns are equal when compared case-insensitively.
C17_NoCaseInsensitiveDuplicateColumns ==
    (TransformReturned /\ mapping = CLEAN_FIELD_MAPPINGS) =>
        \A a, b \in output_data.columns : a # b => LowerName(a) # LowerName(b)

\* C18: with the built-in mapping and a service that answers only the
\* requested fields, every column of the batch transform() returns is a
\* canonical header or created_at.
C18_NoColumnOutsideSchema ==
    (TransformReturned /\ mapping = CLEAN_FIELD_MAPPINGS /\ gateway.extra = {}) =>
        output_data.columns \subseteq Range(DESIRED_OUTPUT_HEADERS) \cup {"created_at"}

\* C19: within _transform_row no later step overwrites a value an earlier
\* step set: the inference merge keeps every destination the generation or
\* the mapping loop set (teacher_id included), the default pass keeps every
\* value that is neither null nor empty, and the timestamp keeps a
\* created_at that is already present.
C19_LaterStepsKeepEarlierValues ==
    RowReturned =>
        /\ \A f \in DOMAIN last_row.resolved :
              ~IsEmptyValue(last_row.resolved[f]) => last_row.merged[f] = last_row.resolved[f]
        /\ \A f \in DOMAIN last_row.merged :
              ~IsEmptyValue(last_row.merged[f]) /\ f # "created_at"
                  => last_row.rec[f] = last_row.merged[f]
        /\ ("created_at" \in DOMAIN last_row.merged /\ ~IsEmptyValue(last_row.merged["created_at"]))
              => last_row.rec["created_at"] = last_row.merged["created_at"]

\* the mapping entries before entry i applied to the record
BeforeEntry(row, items, i) ==
    apply_mappings(row, SubSeq(items, 1, i - 1),
                   [transformed |-> Put(EmptyRecord, "teacher_id", Uuid(1)), ai_fields |-> <<>>])

\* C20: a '+'-combination entry that yields no non-empty part for the record
\* neither sets nor changes its destination: the partial record is the same
\* after the entry as before it.
C20_EmptyCombinationLeavesDestination ==
    last_row # NoRow =>
        \A i \in 1..Len(mapping) :
            (/\ HasPlus(mapping[i][1])
             /\ KeyText(mapping[i][1]) \notin DOMAIN last_row.row
             /\ PresentParts(last_row.row, mapping[i][1]) = <<>>)
                => apply_mapping(last_row.row, mapping[i], BeforeEntry(last_row.row, mapping, i)).transformed
                       = BeforeEntry(last_row.row, mapping, i).transformed

\* the destinations the built-in table lists under the source "AI"
DefaultAIDestinations ==
    {"Years of experience", "Subject (Array)", "Preferred curriculumn", "Nationality"}

\* C21: every (source, destination) pair of the mapping table is processed,
\* pairs sharing the source "AI" included: with the built-in table, and with a
\* mapping file that lists several "AI" lines, the pending-inference list of
\* each row holds every AI destination of the table, not only the last one.
C21_EveryAIDestinationPending ==
    last_row # NoRow =>
        /\ mapping = CLEAN_FIELD_MAPPINGS
              => DefaultAIDestinations \subseteq Range(last_row.ai_fields)
        /\ (entry = "main" /\ mapping_file.status = "ok")
              => \A i \in 1..Len(mapping_file.lines) :
                    (/\ Registers(mapping_file.lines, i)
                     /\ Lower(SourceOf(mapping_file.lines, i)) = "ai")
                        => DestinationOf(mapping_file.lines, i) \in Range(last_row.ai_fields)

\* C22: 'Source ID' is never produced by inference: when 'Source ID' is among
\* the fields handed to infer_multiple_fields, the transformed record holds
\* the record's original identifier under 'Source ID', never a value of the
\* gateway response and never a fallback-table value such as "Unknown".
C22_SourceIdNeverInferred ==
    (RowReturned /\ "Source ID" \in Range(last_row.ai_fields)) =>
        /\ "Source ID" \in DOMAIN last_row.rec
        /\ last_row.rec["Source ID"] = RowGet(last_row.row, "ID")
        /\ last_row.rec["Source ID"] # get_fallback_value("Source ID")

\* C23: the mapping infer_multiple_fields returns has exactly the requested
\* field names as its keys, so the inference merge sets only destinations that
\* were mapped from "AI": a key of the gateway response that was not requested
\* never reaches the transformed record.
C23_InferenceReturnsOnlyRequestedFields ==
    (last_row # NoRow /\ last_row.ai_fields # <<>>) =>
        /\ DOMAIN last_row.inferred = Range(last_row.ai_fields)
        /\ \A f \in (DOMAIN last_row.merged) \ Range(last_row.ai_fields) :
              /\ f \in DOMAIN last_row.resolved
              /\ last_row.merged[f] = last_row.resolved[f]

\* standardize_output was called on std_in and has returned or raised
StandardizeCalled ==
    /\ entry = "standardize"
    /\ pc \in {"std_returned", "std_raised"}
    /\ std_again = NoResult

\* C24: standardize_output never invents or blanks a teacher_id: for a
\* non-empty input batch with no teacher_id column and no alias column
\* supplying one it raises instead of returning, and it never returns a record
\* whose teacher_id is empty.
C24_TeacherIdNeverBlank ==
    StandardizeCalled =>
        /\ (/\ Len(std_in.rows) > 0
            /\ "teacher_id" \notin Range(std_in.columns)
            /\ "ID (a)" \notin Range(std_in.columns))
              => std_out.raised
        /\ ~std_out.raised
              => \A i \in 1..Len(std_out.frame.rows) :
                    ~IsEmptyValue(std_out.frame.rows[i]["teacher_id"])

\* C25: in the batch standardize_output returns, created_at of every record
\* is the input batch's created_at value when the input has one, and
\* otherwise a timestamp of the current instant; it is never an empty string.
C25_CreatedAtKeptOrStamped ==
    (StandardizeCalled /\ ~std_out.raised) =>
        \A i \in 1..Len(std_out.frame.rows) :
            LET x == std_out.frame.rows[i]["created_at"]
            IN  /\ x # Str("")
                /\ ("created_at" \in Range(std_in.columns) /\ ~IsNA(std_in.rows[i]["created_at"]))
                      => x = std_in.rows[i]["created_at"]
                /\ "created_at" \notin Range(std_in.columns)
                      => \E n \in 1..std_out.clock : x = Timestamp(n)

\* record i of the batch handed to standardize_output has a non-null cell in
\* column c
HasCell(i, c) == c \in Range(std_in.columns) /\ ~IsNA(std_in.rows[i][c])

\* C26: in standardize_output the canonical name column takes precedence over
\* the legacy 'Name (b)' column: a record whose canonical name is non-null in
\* the input keeps that value, a record whose canonical name is null receives
\* the 'Name (b)' value when that column is present, and otherwise receives
\* "Unknown Teacher".
C26_CanonicalNameTakesPrecedence ==
    (StandardizeCalled /\ ~std_out.raised) =>
        \A i \in 1..Len(std_out.frame.rows) :
            LET name == std_out.frame.rows[i]["name"]
            IN  /\ HasCell(i, "name") => name = std_in.rows[i]["name"]
                /\ (~HasCell(i, "name") /\ HasCell(i, "Name (b)"))
                      => name = std_in.rows[i]["Name (b)"]
                /\ (~HasCell(i, "name") /\ "Name (b)" \notin Range(std_in.columns))
                      => name = Str("Unknown Teacher")

\* C27: for each input row transform() dispatches at most one external
\* inference request, which covers all of the row's pending fields together;
\* it dispatches none when the row has no pending field, and a request that
\* failed is not retried before the fallback values are used.
C27_AtMostOneRequestPerRow ==
    /\ Len(requests) <= Len(input_data.rows)
    /\ \A i \in 1..Len(requests) : requests[i] <= 1
    /\ last_row # NoRow =>
          /\ last_row.ai_fields = <<>> => last_row.requests = 0
          /\ (last_row.ai_fields # <<>> /\ api_key # NoKey) => last_row.requests = 1
          /\ (last_row.requests = 1 /\ last_row.outcome = "json" /\ ~gateway.omit_first)
                => \A f \in Range(prompt_fields(last_row.ai_fields)) :
                      last_row.inferred[f] = gateway.value
          /\ (last_row.ai_fields # <<>> /\ last_row.outcome \in {"raise", "unparsable"})
                => /\ last_row.requests <= 1
                   /\ last_row.inferred = FallbackAll(last_row.ai_fields)

\* the second row of a batch dispatched its one request for two pending
\* fields, the request failed, and the fallback values were used
C27_Witness ==
    /\ Len(requests) = 2
    /\ requests = <<1, 1>>
    /\ api_key # NoKey
    /\ Len(last_row.ai_fields) = 2
    /\ last_row.outcome = "raise"
    /\ last_row.requests = 1
    /\ last_row.inferred = FallbackAll(last_row.ai_fields)

\* the reasons for which main() stops after the mapping was settled
LaterFailures ==
    {"FileNotFoundError", "No OpenAI API key found", "Invalid input data",
     "The truth value of an array is ambiguous", "Invalid output data",
     "Error saving transformed data"}

\* C28: a missing or unreadable mapping file never stops a run of main():
\* main() continues with the built-in default table and goes on to load the
\* input, so such a run can stop only for a later reason.
C28_MissingMappingFallsBack ==
    (/\ entry = "main"
     /\ mapping_file.status \in {"missing", "unreadable"}
     /\ pc # "load_mapping")
        => /\ mapping = CLEAN_FIELD_MAPPINGS
           /\ pc \in {"load_input", "credential", "construct", "transform", "rows",
                      "save", "done", "aborted"}
           /\ pc = "aborted" => error \in LaterFailures
           /\ pc \notin {"load_input", "aborted"} => input_data = input_file.frame

\* a run whose mapping file could not be read used the built-in table and
\* wrote its output
C28_Witness ==
    /\ entry = "main"
    /\ mapping_file.status = "unreadable"
    /\ pc = "done"
    /\ mapping = CLEAN_FIELD_MAPPINGS
    /\ Len(written) = 1
    /\ last_row.ai_fields = <<"Nationality">>

\* some part of the combination has a null cell (None or NaN) in the record
HasNullPart(row, key) ==
    \E i \in 1..Len(key) : key[i].n \in DOMAIN row /\ IsNA(row[key[i].n])

\* C29: in a '+'-combination a part whose cell is null or NaN is treated like
\* an absent part and contributes nothing: with first 'Jane' and last null the
\* resolved value is exactly 'Jane', and when every part is null the
\* destination falls to the required-column default instead of a text built
\* from the null markers.
C29_NullPartContributesNothing ==
    last_row # NoRow =>
        \A i \in 1..Len(mapping) :
            LET key == mapping[i][1]
                output_field == mapping[i][2]
                expected == JoinedPresentParts(last_row.row, key)
            IN  (/\ HasPlus(key)
                 /\ KeyText(key) \notin DOMAIN last_row.row
                 /\ HasNullPart(last_row.row, key)
                 /\ \A j \in (i + 1)..Len(mapping) : mapping[j][2] # output_field)
                    => /\ expected # "" => last_row.resolved[output_field] = Str(expected)
                       /\ (/\ expected = ""
                           /\ RowReturned
                           /\ output_field \in Range(required_output_columns)
                           /\ output_field \notin DOMAIN last_row.inferred)
                             => last_row.rec[output_field] = get_default_value(output_field, 0)

\* C30: row assembly completes for every kind of value the gateway can return
\* for a required column, a list of more than one element included: the
\* defaulting pass never raises on such a value, so a successful gateway
\* response never aborts the row or the batch.
C30_AssemblyCompletesOnAnyAnswer ==
    (last_row # NoRow /\ last_row.requests = 1 /\ last_row.outcome = "json")
        => /\ ~last_row.raised
           /\ error # "The truth value of an array is ambiguous"

====
